---------------------------- MODULE Spec2Model ----------------------------
(***************************************************************************)
(* Model of src/main.js (Mastodon Wrapped): the import run startImport,    *)
(* the aggregation generateWrapped, resetApp and the IndexedDB 'toots'     *)
(* object store they share.                                                *)
(*                                                                         *)
(* Encodings.                                                              *)
(*  - A JavaScript string is a sequence of one-character strings.          *)
(*  - A timestamp (created_at, Date) is a number of hours of local time    *)
(*    since Mon 1 Jan 2024 00:00; daylight-saving shifts are left out.    *)
(*  - A status id is a positive integer; ids grow with the creation time,  *)
(*    as the server's snowflake ids do. null is NoId.                      *)
(*  - Numbers are exact integers; a quotient is kept as numerator and      *)
(*    denominator until Math.round is applied. NaN and Infinity are the    *)
(*    strings "NaN" and "Infinity".                                        *)
(*  - A toot carries the fields the modelled code reads: id, created_at,   *)
(*    reblog, content. media_attachments, in_reply_to_id, visibility,      *)
(*    favourites_count and reblogs_count feed plain counters only and are  *)
(*    left out, with the counters withMedia, replies, boosts,              *)
(*    privateToots, totalFavorites and totalReblogs.                       *)
(***************************************************************************)
EXTENDS Integers, Sequences, FiniteSets, TLC

VARIABLES
    engine,             \* which of the orders it may choose the build's sort produces
    feed,               \* the account's statuses on the server, newest first
    cutoffNow,          \* what new Date() minus one year evaluates to now
    tootsDb,            \* object store 'toots': id -> toot
    isAuthenticated,    \* accessToken, userId and instanceUrl are set
    isImporting, importComplete, importProgress, error,
    totalToots, existingTootsCount, wrappedData, isGenerating,
    run,                \* per startImport invocation: its locals and position
    calls,              \* how often each operation was called, and the clock moved
    gen,                \* a generateWrapped invocation made from the UI
    hist                \* per invocation: what it did (history, not program state)

vars == <<engine, feed, cutoffNow, tootsDb, isAuthenticated, isImporting, importComplete, importProgress,
          error, totalToots, existingTootsCount, wrappedData, isGenerating,
          run, calls, gen, hist>>

-----------------------------------------------------------------------------
(* Bounds of the model *)

MaxFeed == 5
PageLimit == 2
MaxTs == 1
MaxCutoff == 2
MaxCalls == 2
MaxEngine == 5

-----------------------------------------------------------------------------
(* Generic helpers *)

Min(S) == CHOOSE x \in S : \A y \in S : x <= y
Max(S) == CHOOSE x \in S : \A y \in S : x >= y

RECURSIVE SumSeq(_)
SumSeq(s) == IF s = <<>> THEN 0 ELSE Head(s) + SumSeq(Tail(s))

Range(s) == {s[i] : i \in DOMAIN s}

\* The sequences that list every element of the set S exactly once.
Perms(S) ==
    {p \in [1..Cardinality(S) -> S] : \A x \in S : \E i \in DOMAIN p : p[i] = x}

-----------------------------------------------------------------------------
(* Characters and the regular expressions of generateWrapped *)

Digits == <<"0", "1", "2", "3", "4", "5", "6", "7", "8", "9">>
UpperSeq == <<"A", "B", "C", "D", "E", "F", "G", "H", "I", "J", "K", "L", "M",
              "N", "O", "P", "Q", "R", "S", "T", "U", "V", "W", "X", "Y", "Z">>
LowerSeq == <<"a", "b", "c", "d", "e", "f", "g", "h", "i", "j", "k", "l", "m",
              "n", "o", "p", "q", "r", "s", "t", "u", "v", "w", "x", "y", "z">>

\* \w of a JavaScript regular expression: [A-Za-z0-9_]
IsWordChar(c) == c \in Range(Digits) \cup Range(UpperSeq) \cup Range(LowerSeq) \cup {"_"}

\* \s, for the characters the model uses
IsSpace(c) == c \in {" ", "\t", "\n"}

ToLowerChar(c) ==
    IF c \in Range(UpperSeq)
    THEN LowerSeq[CHOOSE i \in DOMAIN UpperSeq : UpperSeq[i] = c]
    ELSE c

toLowerCase(s) == [i \in DOMAIN s |-> ToLowerChar(s[i])]

\* text = toot.content.replace(/<[^>]*>/g, '')
RECURSIVE StripFrom(_, _)
StripFrom(s, i) ==
    IF i > Len(s) THEN <<>>
    ELSE IF s[i] = "<" /\ \E j \in (i + 1)..Len(s) : s[j] = ">"
         THEN StripFrom(s, Min({j \in (i + 1)..Len(s) : s[j] = ">"}) + 1)
         ELSE <<s[i]>> \o StripFrom(s, i + 1)

StripTags(s) == StripFrom(s, 1)

\* The last index of the longest run of characters satisfying Test from i on
\* (i - 1 when s[i] does not satisfy it).
RunEnd(s, i, Test(_)) ==
    Max({e \in (i - 1)..Len(s) : \A k \in i..e : Test(s[k])})

\* The captures of /#(\w+)/g, in the order hashtagRegex.exec yields them
RECURSIVE TagsFrom(_, _)
TagsFrom(s, i) ==
    IF i > Len(s) THEN <<>>
    ELSE IF s[i] = "#" /\ RunEnd(s, i + 1, IsWordChar) > i
         THEN <<SubSeq(s, i + 1, RunEnd(s, i + 1, IsWordChar))>>
                  \o TagsFrom(s, RunEnd(s, i + 1, IsWordChar) + 1)
         ELSE TagsFrom(s, i + 1)

HashtagMatches(text) == TagsFrom(text, 1)

\* The number of matches of /@\w+/g
RECURSIVE MentionsFrom(_, _)
MentionsFrom(s, i) ==
    IF i > Len(s) THEN 0
    ELSE IF s[i] = "@" /\ RunEnd(s, i + 1, IsWordChar) > i
         THEN 1 + MentionsFrom(s, RunEnd(s, i + 1, IsWordChar) + 1)
         ELSE MentionsFrom(s, i + 1)

MentionCount(text) == MentionsFrom(text, 1)

IsPrefixAt(s, i, p) == i + Len(p) - 1 <= Len(s) /\ SubSeq(s, i, i + Len(p) - 1) = p

NotSpace(c) == ~IsSpace(c)

\* The number of matches of /https?:\/\/[^\s]+/g
RECURSIVE LinksFrom(_, _)
LinksFrom(s, i) ==
    IF i > Len(s) THEN 0
    ELSE LET http == <<"h", "t", "t", "p", ":", "/", "/">>
             https == <<"h", "t", "t", "p", "s", ":", "/", "/">>
             body == IF IsPrefixAt(s, i, https) /\ RunEnd(s, i + 8, NotSpace) >= i + 8
                     THEN i + 8
                     ELSE IF IsPrefixAt(s, i, http) /\ RunEnd(s, i + 7, NotSpace) >= i + 7
                          THEN i + 7
                          ELSE 0
         IN IF body > 0
            THEN 1 + LinksFrom(s, RunEnd(s, body, NotSpace) + 1)
            ELSE LinksFrom(s, i + 1)

LinkCount(text) == LinksFrom(text, 1)

\* text.trim().split(/\s+/).filter(w => w.length > 0).length
WordCount(text) ==
    Cardinality({i \in DOMAIN text :
                    NotSpace(text[i]) /\ (i = 1 \/ IsSpace(text[i - 1]))})

-----------------------------------------------------------------------------
(* Array.prototype.sort, Math.round *)

\* s.sort(cmp) for a consistent comparator, Before(a, b) standing for
\* cmp(a, b) < 0: the sort is stable, so an element's place is one more than
\* the number of elements that go before it.
StableSort(s, Before(_, _)) ==
    LET pos(i) == 1 + Cardinality({j \in DOMAIN s \ {i} :
                        Before(s[j], s[i]) \/ (~Before(s[i], s[j]) /\ j < i)})
    IN [k \in DOMAIN s |-> s[CHOOSE i \in DOMAIN s : pos(i) = k]]

\* Math.round(a / b) for a >= 0 and b > 0 (a half rounds up); 0 / 0 is NaN
RoundDiv(a, b) == IF b = 0 THEN "NaN" ELSE (2 * a + b) \div (2 * b)

-----------------------------------------------------------------------------
(* Dates: toDateString, new Date(string), getHours, toLocaleDateString *)

HoursPerDay == 24
DaysPerWeek == 7
MonthLengths == <<31, 29, 31, 30, 31, 30, 31, 31, 30, 31, 30, 31>>

DayOf(ts) == ts \div HoursPerDay
getHours(ts) == ts % HoursPerDay

MonthStart(m) == SumSeq(SubSeq(MonthLengths, 1, m - 1))
MonthOf(d) == CHOOSE m \in DOMAIN MonthLengths :
                  MonthStart(m) <= d /\ d < MonthStart(m) + MonthLengths[m]
DateOf(d) == d - MonthStart(MonthOf(d)) + 1
WeekdayOf(d) == (d % DaysPerWeek) + 1         \* 1 = Monday: 1 Jan 2024 is a Monday

WeekdayAbbr == << <<"M", "o", "n">>, <<"T", "u", "e">>, <<"W", "e", "d">>,
                  <<"T", "h", "u">>, <<"F", "r", "i">>, <<"S", "a", "t">>,
                  <<"S", "u", "n">> >>
MonthAbbr == << <<"J", "a", "n">>, <<"F", "e", "b">>, <<"M", "a", "r">>,
                <<"A", "p", "r">>, <<"M", "a", "y">>, <<"J", "u", "n">>,
                <<"J", "u", "l">>, <<"A", "u", "g">>, <<"S", "e", "p">>,
                <<"O", "c", "t">>, <<"N", "o", "v">>, <<"D", "e", "c">> >>
WeekdayLong == <<"Montag", "Dienstag", "Mittwoch", "Donnerstag", "Freitag",
                 "Samstag", "Sonntag">>
MonthLong == <<"Januar", "Februar", "Maerz", "April", "Mai", "Juni", "Juli",
               "August", "September", "Oktober", "November", "Dezember">>

TwoDigits(n) == <<Digits[(n \div 10) + 1], Digits[(n % 10) + 1]>>

\* new Date(created_at).toDateString(), e.g. "Mon Jan 01 2024"
toDateString(ts) ==
    LET d == DayOf(ts)
    IN WeekdayAbbr[WeekdayOf(d)] \o <<" ">> \o MonthAbbr[MonthOf(d)] \o <<" ">>
          \o TwoDigits(DateOf(d)) \o <<" ", "2", "0", "2", "4">>

DigitValue(c) == (CHOOSE i \in DOMAIN Digits : Digits[i] = c) - 1

\* new Date(s) for a string toDateString made: local midnight of the day the
\* month and the date name (every date of the model is in 2024)
ParseDateString(s) ==
    LET month == CHOOSE m \in DOMAIN MonthAbbr : MonthAbbr[m] = SubSeq(s, 5, 7)
        date == 10 * DigitValue(s[9]) + DigitValue(s[10])
    IN HoursPerDay * (MonthStart(month) + date - 1)

\* date.toLocaleDateString('de-DE', { weekday: 'long' }) and { month: 'long' }
dayName(ts) == WeekdayLong[WeekdayOf(DayOf(ts))]
monthName(ts) == MonthLong[MonthOf(DayOf(ts))]

\* The order of UTF-16 code units, for the characters the model uses
CodeOrder == <<" ", "#">> \o Digits \o <<"<", ">", "@">> \o UpperSeq \o <<"_">> \o LowerSeq
CharCode(c) == CHOOSE i \in DOMAIN CodeOrder : CodeOrder[i] = c

\* a < b as the default comparison of Array.prototype.sort orders strings
StrLess(a, b) ==
    \E i \in 1..(Len(b)) :
        /\ \A k \in 1..(i - 1) : k <= Len(a) /\ a[k] = b[k]
        /\ \/ i = Len(a) + 1
           \/ i <= Len(a) /\ CharCode(a[i]) < CharCode(b[i])

\* [...new Set(dates)]: the first occurrence of each element, in order
Unique(s) ==
    LET keep == {i \in DOMAIN s : \A j \in 1..(i - 1) : s[j] # s[i]}
        nth(k) == CHOOSE i \in keep : Cardinality({j \in keep : j < i}) = k - 1
    IN [k \in 1..Cardinality(keep) |-> s[nth(k)]]

-----------------------------------------------------------------------------
(* The frequency maps of generateWrapped: plain objects used as maps.      *)
(* A map is the sequence of its own properties in the order they were      *)
(* created, each [key, val, nan]: nan is FALSE when the value is the       *)
(* number val, and TRUE when it is a string that is not a number (then     *)
(* val is the number of "1" characters appended to it).                    *)

HasKey(map, key) == \E i \in DOMAIN map : map[i].key = key
IndexOfKey(map, key) == CHOOSE i \in DOMAIN map : map[i].key = key

\* map[key] = (map[key] || 0) + 1 for a key Object.prototype does not define
CountInc(map, key) ==
    IF HasKey(map, key)
    THEN [map EXCEPT ![IndexOfKey(map, key)].val = @ + 1]
    ELSE Append(map, [key |-> key, val |-> 1, nan |-> FALSE])

\* The lower-case names {} inherits from Object.prototype: every other
\* inherited name has an upper-case letter, which toLowerCase() removes.
ConstructorKey == <<"c", "o", "n", "s", "t", "r", "u", "c", "t", "o", "r">>
ProtoKey == <<"_", "_", "p", "r", "o", "t", "o", "_", "_">>

\* hashtagMap[tag] = (hashtagMap[tag] || 0) + 1 on hashtagMap = {}.
\* hashtagMap.constructor is the inherited function Object, which is truthy:
\* adding 1 to it makes a string. hashtagMap.__proto__ is an accessor whose
\* setter ignores a string, so no property is created.
TagInc(map, tag) ==
    IF tag = ProtoKey THEN map
    ELSE IF HasKey(map, tag)
         THEN [map EXCEPT ![IndexOfKey(map, tag)].val = @ + 1]
         ELSE Append(map, [key |-> tag, val |-> 1, nan |-> (tag = ConstructorKey)])

RECURSIVE TagIncAll(_, _)
TagIncAll(map, tags) ==
    IF tags = <<>> THEN map
    ELSE TagIncAll(TagInc(map, toLowerCase(Head(tags))), Tail(tags))

\* An array index: the canonical decimal string of an integer in 0..2^32-2
MaxArrayIndex == <<"4", "2", "9", "4", "9", "6", "7", "2", "9", "4">>
IsArrayIndex(key) ==
    /\ Len(key) >= 1
    /\ \A i \in DOMAIN key : key[i] \in Range(Digits)
    /\ (Len(key) > 1 => key[1] # "0")
    /\ \/ Len(key) < Len(MaxArrayIndex)
       \/ Len(key) = Len(MaxArrayIndex) /\ ~StrLess(MaxArrayIndex, key)

\* The numeric order of two array indices
IndexLess(a, b) == Len(a) < Len(b) \/ (Len(a) = Len(b) /\ StrLess(a, b))

IsIndexEntry(e) == IsArrayIndex(e.key)
NotIndexEntry(e) == ~IsArrayIndex(e.key)
IndexEntryLess(a, b) == IndexLess(a.key, b.key)

\* Object.entries(hashtagMap): the array-index keys in ascending numeric
\* order, then the other keys in the order they were created
TagEntries(map) ==
    StableSort(SelectSeq(map, IsIndexEntry), IndexEntryLess)
        \o SelectSeq(map, NotIndexEntry)

KeyLess(a, b) == a.key < b.key

\* Object.entries(hourMap): every key is an hour, an array index
HourEntries(map) == StableSort(map, KeyLess)

\* Object.entries(dayMap), Object.entries(monthMap): no key is an array index
NameEntries(map) == map

\* (a, b) => b[1] - a[1] is negative
CountBefore(a, b) == ~a.nan /\ ~b.nan /\ b.val - a.val < 0

RECURSIVE Factorial(_)
Factorial(n) == IF n <= 1 THEN 1 ELSE n * Factorial(n - 1)

\* The k-th order of the items, counting from 0 in lexicographic order of
\* their places
RECURSIVE NthOrder(_, _)
NthOrder(items, k) ==
    IF items = <<>> THEN <<>>
    ELSE LET f == Factorial(Len(items) - 1)
             at == ((k \div f) % Len(items)) + 1
             rest == [m \in 1..(Len(items) - 1) |-> items[IF m < at THEN m ELSE m + 1]]
         IN <<items[at]>> \o NthOrder(rest, k % f)

\* The comparator (a, b) => b[1] - a[1] is consistent on the entries: a value
\* that is not a number makes the difference NaN, which sort takes as 0, and
\* that entry then ties with entries that do not tie with each other
SortIsDefined(entries) ==
    ~ /\ \E i \in DOMAIN entries : entries[i].nan
      /\ \E i, j \in DOMAIN entries : CountBefore(entries[i], entries[j])

\* A sort that may produce another order each time it is called
SortByCountAnyOrder(entries) ==
    IF SortIsDefined(entries)
    THEN {StableSort(entries, CountBefore)}
    ELSE {[k \in DOMAIN entries |-> entries[p[k]]] : p \in Perms(DOMAIN entries)}

\* entries.sort((a, b) => b[1] - a[1]): stable for a consistent comparator;
\* for an inconsistent one the order is implementation-defined, the same one
\* whenever the same build sorts the same entries
SortByCount(entries) ==
    IF SortIsDefined(entries)
    THEN {StableSort(entries, CountBefore)}
    ELSE {NthOrder(entries, engine % Factorial(Len(entries)))}

TopCount == 5

\* .slice(0, 5).map(([tag, count]) => ({ tag, count }))
TopFive(sorted) ==
    [k \in 1..(IF Len(sorted) < TopCount THEN Len(sorted) ELSE TopCount) |->
        [tag |-> sorted[k].key, count |-> sorted[k].val, countIsString |-> sorted[k].nan]]

-----------------------------------------------------------------------------
(* generateWrapped: the statistics computed from the archived toots *)

NotReblog(toot) == ~toot.reblog

RECURSIVE CountAll(_, _)
CountAll(map, keys) ==
    IF keys = <<>> THEN map ELSE CountAll(CountInc(map, Head(keys)), Tail(keys))

\* The hashtag loop over the toots' texts, in traversal order
RECURSIVE HashtagMapFrom(_, _)
HashtagMapFrom(map, texts) ==
    IF texts = <<>> THEN map
    ELSE HashtagMapFrom(TagIncAll(map, HashtagMatches(Head(texts))), Tail(texts))

\* The band of the day an hour counts for
Band(hour) ==
    IF hour >= 6 /\ hour < 12 THEN "morning"
    ELSE IF hour >= 12 /\ hour < 18 THEN "afternoon"
    ELSE IF hour >= 18 /\ hour < 24 THEN "evening"
    ELSE "night"

BandCount(hours, band) == Cardinality({i \in DOMAIN hours : Band(hours[i]) = band})

\* A percentage that is rounded up
PercentCeil(count, total) ==
    IF total = 0 THEN "NaN" ELSE (100 * count + total - 1) \div total

\* Math.round((count / total) * 100)
Percent(count, total) == RoundDiv(100 * count, total)

IntLess(a, b) == a < b

\* A median whose mean of the two middle values is rounded down
MedianFloorMean(lengths) ==
    LET sorted == StableSort(lengths, IntLess)
        mid == Len(lengths) \div 2
    IN IF Len(lengths) = 0 THEN "NaN"
       ELSE IF Len(lengths) % 2 = 0
            THEN (sorted[mid] + sorted[mid + 1]) \div 2
            ELSE sorted[mid + 1]

\* lengths.sort((a, b) => a - b), then the middle value or the rounded mean
\* of the two middle values; on no lengths undefined + undefined is NaN
MedianLength(lengths) ==
    LET sorted == StableSort(lengths, IntLess)
        mid == Len(lengths) \div 2
    IN IF Len(lengths) = 0 THEN "NaN"
       ELSE IF Len(lengths) % 2 = 0
            THEN RoundDiv(sorted[mid] + sorted[mid + 1], 2)
            ELSE sorted[mid + 1]

\* stats.shortestToot starts as Infinity and takes every smaller length > 0
ShortestToot(lengths) ==
    LET positive == {lengths[i] : i \in {j \in DOMAIN lengths : lengths[j] > 0}}
    IN IF positive = {} THEN "Infinity" ELSE Min(positive)

LongestToot(lengths) == Max({0} \cup Range(lengths))

\* The loop over uniqueDates
RECURSIVE StreakScan(_, _, _, _)
StreakScan(uniqueDates, i, currentStreak, maxStreak) ==
    IF i > Len(uniqueDates) THEN maxStreak
    ELSE LET prev == ParseDateString(uniqueDates[i - 1])
             curr == ParseDateString(uniqueDates[i])
             diff == (curr - prev) \div HoursPerDay
         IN IF diff = 1
            THEN StreakScan(uniqueDates, i + 1, currentStreak + 1,
                            IF currentStreak + 1 > maxStreak
                            THEN currentStreak + 1 ELSE maxStreak)
            ELSE StreakScan(uniqueDates, i + 1, 1, maxStreak)

\* dates = filteredToots.map(t => new Date(t.created_at).toDateString()).sort()
SortedDates(times) ==
    StableSort([i \in DOMAIN times |-> toDateString(times[i])], StrLess)

LongestStreak(times) == StreakScan(Unique(SortedDates(times)), 2, 1, 1)

\* The first entry of the entries sorted by count, or the default
MostActive(entries, default) ==
    IF entries = <<>> THEN default ELSE StableSort(entries, CountBefore)[1]

\* The stats object generateWrapped assigns to wrappedData, for each order the
\* hashtag sort may produce
StatsOutcomes(allToots) ==
    LET filteredToots == SelectSeq(allToots, NotReblog)
        total == Len(filteredToots)
        texts == [i \in DOMAIN filteredToots |-> StripTags(filteredToots[i].content)]
        lengths == [i \in DOMAIN texts |-> Len(texts[i])]
        times == [i \in DOMAIN filteredToots |-> filteredToots[i].created_at]
        hours == [i \in DOMAIN times |-> getHours(times[i])]
        totalWords == SumSeq([i \in DOMAIN texts |-> WordCount(texts[i])])
        hourMap == CountAll(<<>>, hours)
        dayMap == CountAll(<<>>, [i \in DOMAIN times |-> dayName(times[i])])
        monthMap == CountAll(<<>>, [i \in DOMAIN times |-> monthName(times[i])])
        hashtagMap == HashtagMapFrom(<<>>, texts)
        maxHour == MostActive(HourEntries(hourMap), [key |-> 12, val |-> 0, nan |-> FALSE])
        maxDay == MostActive(NameEntries(dayMap), [key |-> "Montag", val |-> 0, nan |-> FALSE])
        maxMonth == MostActive(NameEntries(monthMap), [key |-> "Januar", val |-> 0, nan |-> FALSE])
    IN {[isNull |-> FALSE,
         totalToots |-> total,
         totalRetoots |-> Len(allToots) - total,
         avgLength |-> RoundDiv(SumSeq(lengths), total),
         longestToot |-> LongestToot(lengths),
         shortestToot |-> ShortestToot(lengths),
         medianLength |-> MedianLength(lengths),
         totalWords |-> totalWords,
         avgWords |-> RoundDiv(totalWords, total),
         timeDistribution |->
             [morning |-> Percent(BandCount(hours, "morning"), total),
              afternoon |-> Percent(BandCount(hours, "afternoon"), total),
              evening |-> Percent(BandCount(hours, "evening"), total),
              night |-> Percent(BandCount(hours, "night"), total)],
         totalLinks |-> SumSeq([i \in DOMAIN texts |-> LinkCount(texts[i])]),
         totalMentions |-> SumSeq([i \in DOMAIN texts |-> MentionCount(texts[i])]),
         topHashtags |-> TopFive(sorted),
         mostActiveHour |-> maxHour.key,
         mostActiveDay |-> maxDay.key,
         mostActiveMonth |-> [name |-> maxMonth.key, count |-> maxMonth.val],
         longestStreak |-> LongestStreak(times)]
        : sorted \in SortByCount(TagEntries(hashtagMap))}

-----------------------------------------------------------------------------
(* The server's feed and the object store *)

NoId == 0
Slots == 1..MaxCalls

\* The content of every status of the feed of the import runs
FeedContent == <<"#", "a", " ", "b">>

Toot(id, ts, reblog, content) ==
    [id |-> id, created_at |-> ts, reblog |-> reblog, content |-> content]

\* The feeds of n statuses: newest first, the ids n..1 falling with the
\* creation time
FeedsOf(n) ==
    {[i \in 1..n |-> Toot(n - i + 1, t[i], FALSE, FeedContent)] :
        t \in {u \in [1..n -> 0..MaxTs] : \A i \in 1..(n - 1) : u[i] >= u[i + 1]}}

Feeds == UNION {FeedsOf(n) : n \in 0..MaxFeed}

\* GET /api/v1/accounts/:id/statuses?limit=40[&max_id=maxId]: the newest
\* statuses older than maxId, at most a page of them
ServerPage(maxId) ==
    LET Older(t) == maxId = NoId \/ t.id < maxId
        older == SelectSeq(feed, Older)
    IN SubSeq(older, 1, IF Len(older) < PageLimit THEN Len(older) ELSE PageLimit)

\* A put into a store that is emptied first
PutAlone(db, toot) == toot.id :> toot

\* store.put(data) on a store with keyPath 'id': insert or overwrite
Put(db, toot) == (toot.id :> toot) @@ db

\* store.getAll(): the records in ascending order of their keys
GetAll(db) ==
    LET ids == DOMAIN db
        nth(k) == CHOOSE i \in ids : Cardinality({j \in ids : j < i}) = k - 1
    IN [k \in 1..Cardinality(ids) |-> db[nth(k)]]

EmptyDb == [i \in {} |-> 0]

\* The store after the puts of the toots, in order
RECURSIVE PutAll(_, _)
PutAll(db, toots) ==
    IF toots = <<>> THEN db ELSE PutAll(Put(db, Head(toots)), Tail(toots))

NullData == [isNull |-> TRUE]
NoError == "null"
ImportError == "Import-Fehler"
GenerateError == "Fehler beim Generieren"

-----------------------------------------------------------------------------
(* startImport *)

IdleRun ==
    [pc |-> "idle", oneYearAgo |-> 0, allToots |-> <<>>, maxId |-> NoId,
     hasMore |-> FALSE, page |-> 0, i |-> 0, ok |-> TRUE, snapshot |-> <<>>]

NoHist ==
    [outcome |-> "none", log |-> <<>>, pages |-> <<>>, dbAtStart |-> EmptyDb,
     disturbed |-> FALSE, alone |-> TRUE]

Fetch(maxId) == [op |-> "fetch", id |-> maxId, ok |-> TRUE]
PutEvent(id, ok) == [op |-> "put", id |-> id, ok |-> ok]

\* The model follows the application through MaxCalls calls and clock ticks
CallsLeft == calls.imports + calls.gens + calls.resets + calls.ticks < MaxCalls

Running(r) == run[r].pc \notin {"idle", "done"}

\* A filter that drops a toot created exactly one year ago
InWindowStrict(toot, oneYearAgo) == toot.created_at > oneYearAgo

\* tootDate >= oneYearAgo
InWindow(toot, oneYearAgo) == toot.created_at >= oneYearAgo

\* Every other running invocation sees the store change under it
Disturb(h, r) ==
    [q \in Slots |-> IF q # r /\ Running(q) THEN [h[q] EXCEPT !.disturbed = TRUE] ELSE h[q]]

\* A catch block that swallows the error
AbortSilent(r, outcome) ==
    /\ error' = error
    /\ isImporting' = FALSE
    /\ run' = [run EXCEPT ![r] = [@ EXCEPT !.pc = "done"]]
    /\ hist' = [hist EXCEPT ![r].outcome = outcome]
    /\ UNCHANGED <<engine, feed, cutoffNow, tootsDb, isAuthenticated, importComplete,
                   importProgress, totalToots, existingTootsCount, wrappedData,
                   isGenerating, calls, gen>>

\* catch (err) { error.value = ... } finally { isImporting.value = false }
Abort(r, outcome) ==
    /\ error' = ImportError
    /\ isImporting' = FALSE
    /\ run' = [run EXCEPT ![r] = [@ EXCEPT !.pc = "done"]]
    /\ hist' = [hist EXCEPT ![r].outcome = outcome]
    /\ UNCHANGED <<engine, feed, cutoffNow, tootsDb, isAuthenticated, importComplete,
                   importProgress, totalToots, existingTootsCount, wrappedData,
                   isGenerating, calls, gen>>

\* The first statements of startImport, up to the first fetch
StartImport(r) ==
    /\ CallsLeft
    /\ r = calls.imports + 1
    /\ isImporting' = TRUE
    /\ error' = NoError
    /\ importProgress' = 0
    /\ run' = [run EXCEPT ![r] =
                 [pc |-> "fetch", oneYearAgo |-> cutoffNow, allToots |-> <<>>,
                  maxId |-> NoId, hasMore |-> TRUE, page |-> 1, i |-> 0,
                  ok |-> TRUE, snapshot |-> <<>>]]
    /\ hist' = [q \in Slots |->
                 IF q = r
                 THEN [outcome |-> "running", log |-> <<Fetch(NoId)>>, pages |-> <<>>,
                       dbAtStart |-> tootsDb, disturbed |-> FALSE,
                       alone |-> \A p \in Slots : ~Running(p)]
                 ELSE IF Running(q) THEN [hist[q] EXCEPT !.alone = FALSE]
                 ELSE hist[q]]
    /\ UNCHANGED <<engine, feed, cutoffNow, tootsDb, isAuthenticated, importComplete,
                   totalToots, existingTootsCount, wrappedData, isGenerating, gen>>
    /\ calls' = [calls EXCEPT !.imports = r]

\* A catch block that saves what the run has fetched before it gives up
FetchFailSaves(r) ==
    /\ run[r].pc = "fetch"
    /\ tootsDb' = PutAll(tootsDb, run[r].allToots)
    /\ error' = ImportError
    /\ isImporting' = FALSE
    /\ run' = [run EXCEPT ![r] = [@ EXCEPT !.pc = "done"]]
    /\ hist' = [hist EXCEPT
                  ![r].outcome = "fetchError",
                  ![r].log = @ \o [k \in DOMAIN run[r].allToots |->
                                     PutEvent(run[r].allToots[k].id, TRUE)]]
    /\ UNCHANGED <<engine, feed, cutoffNow, isAuthenticated, importComplete,
                   importProgress, totalToots, existingTootsCount, wrappedData,
                   isGenerating, calls, gen>>

\* fetch rejects, or !response.ok: throw new Error(...)
FetchFail(r) ==
    /\ run[r].pc = "fetch"
    /\ Abort(r, "fetchError")

\* A put that writes the record although its request fails
IssuePutAlwaysWrites(r, locals, i, ok, events, h) ==
    LET toot == locals.allToots[i]
    IN /\ tootsDb' = Put(tootsDb, toot)
       /\ run' = [run EXCEPT ![r] = [locals EXCEPT !.pc = "save", !.i = i, !.ok = ok]]
       /\ hist' = [Disturb(h, r) EXCEPT
                      ![r].log = events \o <<PutEvent(toot.id, ok)>>]

\* await saveToDb('toots', allToots[i]): the put is made in a transaction of
\* its own, which the store runs before every transaction opened later
IssuePut(r, locals, i, ok, events, h) ==
    LET toot == locals.allToots[i]
    IN /\ tootsDb' = IF ok THEN Put(tootsDb, toot) ELSE tootsDb
       /\ run' = [run EXCEPT ![r] = [locals EXCEPT !.pc = "save", !.i = i, !.ok = ok]]
       /\ hist' = [(IF ok THEN Disturb(h, r) ELSE h) EXCEPT
                      ![r].log = events \o <<PutEvent(toot.id, ok)>>]

\* The statements after the for loop, up to the await in generateWrapped
FinishImport(r, locals, h) ==
    /\ totalToots' = Len(locals.allToots)
    /\ importProgress' = 100
    /\ importComplete' = TRUE
    /\ existingTootsCount' = Len(locals.allToots)
    /\ isGenerating' = TRUE
    /\ run' = [run EXCEPT ![r] = [locals EXCEPT !.pc = "genDelay"]]
    /\ hist' = [h EXCEPT ![r].outcome = "imported"]
    /\ UNCHANGED tootsDb

\* The loop has ended: for (const toot of allToots) await saveToDb(...)
BeginPersist(r, locals, h) ==
    IF locals.allToots = <<>>
    THEN FinishImport(r, locals, h)
    ELSE /\ \E ok \in BOOLEAN : IssuePut(r, locals, 1, ok, h[r].log, h)
         /\ UNCHANGED <<totalToots, importProgress, importComplete,
                        existingTootsCount, isGenerating>>

\* tootsPage.filter(toot => new Date(toot.created_at) >= oneYearAgo)
FilterPage(tootsPage, oneYearAgo) ==
    SelectSeq(tootsPage, LAMBDA t : InWindow(t, oneYearAgo))

\* A loop that never sees the cutoff
NeverOld(tootsPage, oneYearAgo) == FALSE

\* oldestDate < oneYearAgo, for the last toot of the page
OldestIsOld(tootsPage, oneYearAgo) ==
    tootsPage[Len(tootsPage)].created_at < oneYearAgo

\* A progress without its cap
PageProgressUncapped(page) == page * 10

\* Math.min(95, page * 10)
PageProgress(page) == IF page * 10 < 95 THEN page * 10 ELSE 95

\* A loop body that takes an empty page for a failure
FetchPageEmptyFails(r) ==
    /\ run[r].pc = "fetch"
    /\ isAuthenticated
    /\ LET tootsPage == ServerPage(run[r].maxId)
           got == [hist EXCEPT ![r].pages = Append(@, tootsPage)]
       IN IF Len(tootsPage) = 0
          THEN /\ error' = ImportError
               /\ isImporting' = FALSE
               /\ run' = [run EXCEPT ![r] = [@ EXCEPT !.pc = "done"]]
               /\ hist' = [got EXCEPT ![r].outcome = "fetchError"]
               /\ UNCHANGED <<tootsDb, totalToots, importComplete, importProgress,
                              existingTootsCount, isGenerating>>
          ELSE LET filteredToots == FilterPage(tootsPage, run[r].oneYearAgo)
                   oldestToot == tootsPage[Len(tootsPage)]
                   old == OldestIsOld(tootsPage, run[r].oneYearAgo)
               IN /\ run' = [run EXCEPT ![r] =
                               [@ EXCEPT !.allToots = @ \o filteredToots,
                                         !.hasMore = ~old,
                                         !.maxId = IF old THEN @ ELSE oldestToot.id,
                                         !.pc = "delay"]]
                  /\ importProgress' = PageProgress(run[r].page)
                  /\ hist' = got
                  /\ UNCHANGED <<tootsDb, totalToots, importComplete,
                                 existingTootsCount, isGenerating, isImporting, error>>
    /\ UNCHANGED <<engine, feed, cutoffNow, isAuthenticated, wrappedData, calls, gen>>

\* The response of a fetch is ok: the rest of the loop body
FetchPage(r) ==
    /\ run[r].pc = "fetch"
    /\ isAuthenticated
    /\ LET tootsPage == ServerPage(run[r].maxId)
           got == [hist EXCEPT ![r].pages = Append(@, tootsPage)]
       IN IF Len(tootsPage) = 0
          THEN BeginPersist(r, [run[r] EXCEPT !.hasMore = FALSE], got)
          ELSE LET filteredToots == FilterPage(tootsPage, run[r].oneYearAgo)
                   oldestToot == tootsPage[Len(tootsPage)]
                   old == OldestIsOld(tootsPage, run[r].oneYearAgo)
               IN /\ run' = [run EXCEPT ![r] =
                               [@ EXCEPT !.allToots = @ \o filteredToots,
                                         !.hasMore = ~old,
                                         !.maxId = IF old THEN @ ELSE oldestToot.id,
                                         !.pc = "delay"]]
                  /\ importProgress' = PageProgress(run[r].page)
                  /\ hist' = got
                  /\ UNCHANGED <<tootsDb, totalToots, importComplete,
                                 existingTootsCount, isGenerating>>
    /\ UNCHANGED <<engine, feed, cutoffNow, isAuthenticated, isImporting, error,
                   wrappedData, calls, gen>>

\* A loop that saves what it has accumulated before it fetches the next page
DelayDonePerPage(r) ==
    /\ run[r].pc = "delay"
    /\ IF run[r].hasMore
       THEN /\ tootsDb' = PutAll(tootsDb, run[r].allToots)
            /\ run' = [run EXCEPT ![r] = [@ EXCEPT !.page = @ + 1, !.pc = "fetch"]]
            /\ hist' = [Disturb(hist, r) EXCEPT
                          ![r].log = @ \o [k \in DOMAIN run[r].allToots |->
                                             PutEvent(run[r].allToots[k].id, TRUE)]
                                       \o <<Fetch(run[r].maxId)>>]
            /\ UNCHANGED <<totalToots, importProgress, importComplete,
                           existingTootsCount, isGenerating>>
       ELSE BeginPersist(r, run[r], hist)
    /\ UNCHANGED <<engine, feed, cutoffNow, isAuthenticated, isImporting, error,
                   wrappedData, calls, gen>>

\* The pause of one second is over: while (hasMore)
DelayDone(r) ==
    /\ run[r].pc = "delay"
    /\ IF run[r].hasMore
       THEN /\ run' = [run EXCEPT ![r] = [@ EXCEPT !.page = @ + 1, !.pc = "fetch"]]
            /\ hist' = [hist EXCEPT ![r].log = Append(@, Fetch(run[r].maxId))]
            /\ UNCHANGED <<tootsDb, totalToots, importProgress, importComplete,
                           existingTootsCount, isGenerating>>
       ELSE BeginPersist(r, run[r], hist)
    /\ UNCHANGED <<engine, feed, cutoffNow, isAuthenticated, isImporting, error,
                   wrappedData, calls, gen>>

\* A put was answered: request.onsuccess resolves, request.onerror rejects
SaveDone(r) ==
    /\ run[r].pc = "save"
    /\ run[r].ok
    /\ IF run[r].i < Len(run[r].allToots)
       THEN /\ \E ok \in BOOLEAN :
                  IssuePut(r, run[r], run[r].i + 1, ok, hist[r].log, hist)
            /\ UNCHANGED <<totalToots, importProgress, importComplete,
                           existingTootsCount, isGenerating>>
       ELSE FinishImport(r, run[r], hist)
    /\ UNCHANGED <<engine, feed, cutoffNow, isAuthenticated, isImporting, error,
                   wrappedData, calls, gen>>

SaveFail(r) ==
    /\ run[r].pc = "save"
    /\ ~run[r].ok
    /\ Abort(r, "storeError")

-----------------------------------------------------------------------------
(* generateWrapped, as the last statement of startImport and from the UI *)

\* The pause of 500 ms is over: getAllFromDb('toots') opens its transaction,
\* which reads the store as the transactions opened before it left it
ReadIssued(locals, ok) ==
    [locals EXCEPT !.pc = "genRead", !.ok = ok,
                   !.snapshot = IF ok THEN GetAll(tootsDb) ELSE <<>>]

\* getAll was answered: the statistics, or the catch of generateWrapped
Generated(locals) ==
    /\ IF locals.ok
       THEN /\ \E stats \in StatsOutcomes(locals.snapshot) : wrappedData' = stats
            /\ UNCHANGED error
       ELSE /\ error' = GenerateError
            /\ UNCHANGED wrappedData
    /\ isGenerating' = FALSE

ImportGenDelayDone(r) ==
    /\ run[r].pc = "genDelay"
    /\ \E ok \in BOOLEAN : run' = [run EXCEPT ![r] = ReadIssued(@, ok)]
    /\ UNCHANGED <<engine, feed, cutoffNow, tootsDb, isAuthenticated, isImporting,
                   importComplete, importProgress, error, totalToots,
                   existingTootsCount, wrappedData, isGenerating, calls, gen, hist>>

\* generateWrapped returns into startImport, whose finally block ends the run
ImportGenerated(r) ==
    /\ run[r].pc = "genRead"
    /\ Generated(run[r])
    /\ isImporting' = FALSE
    /\ run' = [run EXCEPT ![r] = [@ EXCEPT !.pc = "done"]]
    /\ hist' = [hist EXCEPT ![r].outcome = "done"]
    /\ UNCHANGED <<engine, feed, cutoffNow, tootsDb, isAuthenticated, importComplete,
                   importProgress, totalToots, existingTootsCount, calls, gen>>

IdleGen == [pc |-> "idle", ok |-> TRUE, snapshot |-> <<>>]

\* generateWrapped called from the UI
GenerateWrapped ==
    /\ gen.pc = "idle"
    /\ CallsLeft
    /\ calls' = [calls EXCEPT !.gens = @ + 1]
    /\ isGenerating' = TRUE
    /\ gen' = [gen EXCEPT !.pc = "genDelay"]
    /\ UNCHANGED <<engine, feed, cutoffNow, tootsDb, isAuthenticated, isImporting,
                   importComplete, importProgress, error, totalToots,
                   existingTootsCount, wrappedData, run, hist>>

GenDelayDone ==
    /\ gen.pc = "genDelay"
    /\ \E ok \in BOOLEAN : gen' = ReadIssued(gen, ok)
    /\ UNCHANGED <<engine, feed, cutoffNow, tootsDb, isAuthenticated, isImporting,
                   importComplete, importProgress, error, totalToots,
                   existingTootsCount, wrappedData, isGenerating, run, calls, hist>>

GenGenerated ==
    /\ gen.pc = "genRead"
    /\ Generated(gen)
    /\ gen' = IdleGen
    /\ UNCHANGED <<engine, feed, cutoffNow, tootsDb, isAuthenticated, isImporting,
                   importComplete, importProgress, totalToots,
                   existingTootsCount, run, calls, hist>>

-----------------------------------------------------------------------------
(* resetApp, and the passing of time *)

\* resetApp, confirmed: both object stores are cleared
ResetApp ==
    /\ CallsLeft
    /\ calls' = [calls EXCEPT !.resets = @ + 1]
    /\ tootsDb' = EmptyDb
    /\ isAuthenticated' = FALSE
    /\ importComplete' = FALSE
    /\ totalToots' = 0
    /\ wrappedData' = NullData
    /\ existingTootsCount' = 0
    /\ hist' = Disturb(hist, 0)
    /\ UNCHANGED <<engine, feed, cutoffNow, isImporting, importProgress, error,
                   isGenerating, run, gen>>

\* Time passes: one year ago is later than it was
Tick ==
    /\ CallsLeft
    /\ cutoffNow < MaxCutoff
    /\ cutoffNow' = cutoffNow + 1
    /\ calls' = [calls EXCEPT !.ticks = @ + 1]
    /\ UNCHANGED <<engine, feed, tootsDb, isAuthenticated, isImporting, importComplete,
                   importProgress, error, totalToots, existingTootsCount,
                   wrappedData, isGenerating, run, gen, hist>>

-----------------------------------------------------------------------------
(* The application after setup() and onMounted, signed in *)

InitRefs ==
    /\ cutoffNow = 1
    /\ isAuthenticated = TRUE
    /\ isImporting = FALSE
    /\ importComplete = FALSE
    /\ importProgress = 0
    /\ error = NoError
    /\ totalToots = 0
    /\ wrappedData = NullData
    /\ isGenerating = FALSE
    /\ run = [r \in Slots |-> IdleRun]
    /\ gen = IdleGen
    /\ calls = [imports |-> 0, gens |-> 0, resets |-> 0, ticks |-> 0]
    /\ hist = [r \in Slots |-> NoHist]

\* The hashtag entries generateWrapped sorts for the toots
HashtagEntriesOf(allToots) ==
    LET filteredToots == SelectSeq(allToots, NotReblog)
    IN TagEntries(HashtagMapFrom(<<>>,
           [i \in DOMAIN filteredToots |-> StripTags(filteredToots[i].content)]))

\* The builds that differ on the toots: one, unless their hashtag sort is
\* left to the implementation
Engines(allToots) ==
    IF SortIsDefined(HashtagEntriesOf(allToots)) THEN {0} ELSE 0..MaxEngine

\* existingTootsCount.value = existingToots.length
InitApp ==
    /\ InitRefs
    /\ existingTootsCount = Cardinality(DOMAIN tootsDb)

Init ==
    /\ feed \in Feeds
    /\ engine \in Engines(feed)
    /\ tootsDb = EmptyDb
    /\ InitApp

Next ==
    \/ \E r \in Slots : StartImport(r)
    \/ \E r \in Slots : FetchFail(r)
    \/ \E r \in Slots : FetchPage(r)
    \/ \E r \in Slots : DelayDone(r)
    \/ \E r \in Slots : SaveDone(r)
    \/ \E r \in Slots : SaveFail(r)
    \/ \E r \in Slots : ImportGenDelayDone(r)
    \/ \E r \in Slots : ImportGenerated(r)
    \/ GenerateWrapped
    \/ GenDelayDone
    \/ GenGenerated
    \/ ResetApp
    \/ Tick

Spec == Init /\ [][Next]_vars

\* Every promise a run awaits is settled: a fetch resolves or rejects, a timer
\* fires, a request to the store succeeds or fails. A run that has not ended
\* is awaiting one, so it takes a step again and again until it ends.
Fairness ==
    \A r \in Slots :
        \/ []<>(~Running(r))
        \/ []<><<Running(r) /\ run'[r] # run[r]>>_vars

SpecFair == Spec /\ Fairness

\* An account whose feed has pages enough for the progress to reach its cap:
\* boosts of the last year, which the import takes like any other status
LongFeed == 20

LongFeeds ==
    {[i \in 1..n |-> Toot(n - i + 1, MaxTs, TRUE, FeedContent)] :
        n \in (LongFeed - 1)..LongFeed}

InitLong ==
    /\ feed \in LongFeeds
    /\ engine \in Engines(feed)
    /\ tootsDb = EmptyDb
    /\ InitApp

SpecLong == InitLong /\ [][Next]_vars

\* A user who comes back: the store holds what an earlier session imported,
\* a stretch of the statuses the server lists
MaxReturnFeed == 3

EarlierImports ==
    {PutAll(EmptyDb, SubSeq(feed, k, m)) : k \in 1..(Len(feed) + 1), m \in 0..Len(feed)}

InitReturn ==
    /\ feed \in UNION {FeedsOf(n) : n \in 0..MaxReturnFeed}
    /\ engine \in Engines(feed)
    /\ tootsDb \in EarlierImports
    /\ InitApp

SpecReturn == InitReturn /\ [][Next]_vars

-----------------------------------------------------------------------------
(* generateWrapped on the archive of an earlier session: the page was loaded
   with the user signed in and the posts of earlier imports in the store *)

MaxStreakPosts == 4
MaxDay == 6
MaxBandPosts == 8
MaxTagTokens == 3
MaxBoostPosts == 2
MaxLengthPosts == 4
MaxLength == 4

PlainContent == <<"a">>

\* The first and the last hour of the bands morning, afternoon, evening, night
BandHours == <<<<6, 11>>, <<12, 17>>, <<18, 23>>, <<0, 5>>>>
Noon == BandHours[2][1]

SeqsUpTo(S, n) == UNION {[1..k -> S] : k \in 0..n}

\* The store that holds the toots
DbOf(toots) == PutAll(EmptyDb, toots)

\* Posts at noon of the days 0..MaxDay, in every order of their ids
StreakArchives ==
    {DbOf([i \in DOMAIN d |-> Toot(i, d[i] * HoursPerDay + Noon, FALSE, PlainContent)]) :
        d \in SeqsUpTo(0..MaxDay, MaxStreakPosts)}

\* c[b] posts in band b, in turn at its first and at its last hour
RECURSIVE HoursOf(_, _)
HoursOf(c, b) ==
    IF b > Len(BandHours) THEN <<>>
    ELSE [k \in 1..c[b] |-> BandHours[b][IF k % 2 = 1 THEN 1 ELSE 2]] \o HoursOf(c, b + 1)

\* Posts of one day, with every count of posts per band
TimeArchives ==
    {DbOf([i \in DOMAIN h |-> Toot(i, h[i], FALSE, PlainContent)]) :
        h \in {HoursOf(c, 1) :
                 c \in {x \in [DOMAIN BandHours -> 0..MaxBandPosts] :
                          x[1] + x[2] + x[3] + x[4] <= MaxBandPosts}}}

TagTokens ==
    {<<"#", "a">>, <<"#", "A">>, <<"#", "b">>, <<"#", "1">>, <<"#", "2">>,
     <<"#", "c", "o", "n", "s", "t", "r", "u", "c", "t", "o", "r">>,
     <<"#", "_", "_", "p", "r", "o", "t", "o", "_", "_">>}

ManyTags == <<"#", "a", " ", "#", "b", " ", "#", "c", " ", "#", "d", " ", "#", "e", " ", "#", "f">>
TwiceTag == <<"#", "a">>
LastTokens == TagTokens \cup {<<"#", "f">>, <<"#", "e">>}

\* The tokens, each followed by a space
RECURSIVE Join(_)
Join(tokens) ==
    IF tokens = <<>> THEN <<>> ELSE Head(tokens) \o <<" ">> \o Join(Tail(tokens))

\* One post of up to MaxTagTokens hashtags, two posts of up to one hashtag
\* each, one post of six hashtags and one more, and one post of one hashtag
\* twice and two more
TagArchives ==
    {DbOf(<<Toot(1, Noon, FALSE, Join(t))>>) : t \in SeqsUpTo(TagTokens, MaxTagTokens)}
    \cup {DbOf(<<Toot(1, Noon, FALSE, Join(t)), Toot(2, Noon, FALSE, Join(u))>>) :
            t \in SeqsUpTo(TagTokens, 1), u \in SeqsUpTo(TagTokens, 1)}
    \cup {DbOf(<<Toot(1, Noon, FALSE, ManyTags \o <<" ">> \o t)>>) : t \in LastTokens}
    \cup {DbOf(<<Toot(1, Noon, FALSE, Join(<<TwiceTag, TwiceTag>> \o t))>>) :
            t \in [1..2 -> TagTokens]}

\* Posts and boosts
BoostArchives ==
    {DbOf([i \in DOMAIN b |-> Toot(i, Noon, b[i], PlainContent)]) :
        b \in SeqsUpTo(BOOLEAN, MaxBoostPosts)}

\* A text of n characters
TextOf(n) == [i \in 1..n |-> "a"]

\* Posts of every length up to MaxLength, in every order
LengthArchives ==
    {DbOf([i \in DOMAIN l |-> Toot(i, Noon, FALSE, TextOf(l[i]))]) :
        l \in SeqsUpTo(0..MaxLength, MaxLengthPosts)}

Archives ==
    StreakArchives \cup TimeArchives \cup TagArchives \cup BoostArchives
    \cup LengthArchives

InitArchive ==
    /\ feed = <<>>
    /\ tootsDb \in Archives
    /\ engine \in Engines(GetAll(tootsDb))
    /\ InitApp

NextArchive ==
    \/ GenerateWrapped
    \/ GenDelayDone
    \/ GenGenerated

SpecArchive == InitArchive /\ [][NextArchive]_vars

-----------------------------------------------------------------------------
(* What an import run did, read from its history *)

Started(r) == run[r].pc # "idle"

FetchCount(log) == Cardinality({i \in DOMAIN log : log[i].op = "fetch"})
IsPut(e) == e.op = "put"
PutsOf(log) == SelectSeq(log, IsPut)
OkPutIds(log) == {log[i].id : i \in {j \in DOMAIN log : log[j].op = "put" /\ log[j].ok}}

RECURSIVE Flatten(_)
Flatten(pages) == IF pages = <<>> THEN <<>> ELSE Head(pages) \o Flatten(Tail(pages))

Ids(toots) == {toots[i].id : i \in DOMAIN toots}

LastOf(page) == page[Len(page)]

\* The step of this behaviour in which the run r ends
Ends(r) == Running(r) /\ run'[r].pc = "done"

-----------------------------------------------------------------------------
(* Claims about startImport, under Spec *)

\* C1: once a fetched page's oldest (last) post was created before the
\* cutoff, the run fetches no further page: that page is the k-th and last
\* one fetched, k fetches were issued, and no status the server lists after
\* that page is accumulated or saved by the run.
C1_StopsAtCutoff ==
    \A r \in Slots : \A j \in DOMAIN hist[r].pages :
        LET page == hist[r].pages[j]
        IN (page # <<>> /\ LastOf(page).created_at < run[r].oneYearAgo) =>
              /\ j = Len(hist[r].pages)
              /\ FetchCount(hist[r].log) = j
              /\ \A i \in DOMAIN feed :
                    feed[i].id < LastOf(page).id =>
                        feed[i].id \notin Ids(run[r].allToots) \cup OkPutIds(hist[r].log)

\* A run that ended well after two pages, the second one crossing the cutoff,
\* while the server has a third page
C1_Witness ==
    \E r \in Slots :
        /\ hist[r].outcome = "done"
        /\ Len(hist[r].pages) = 2
        /\ hist[r].pages[2] # <<>>
        /\ LastOf(hist[r].pages[2]).created_at < run[r].oneYearAgo
        /\ \E i \in DOMAIN feed : feed[i].id < LastOf(hist[r].pages[2]).id
        /\ run[r].allToots # <<>>

\* C2: the posts a run has accumulated are exactly the posts of the pages it
\* fetched that were created at or after the cutoff, in order; every post the
\* run saves is one of them, and a run that finishes its import has saved
\* all of them.
C2_ExactlyTheQualifyingPosts ==
    \A r \in Slots :
        LET Qualifies(t) == t.created_at >= run[r].oneYearAgo
            qualifying == SelectSeq(Flatten(hist[r].pages), Qualifies)
        IN Started(r) =>
              /\ run[r].allToots = qualifying
              /\ OkPutIds(hist[r].log) \subseteq Ids(qualifying)
              /\ hist[r].outcome \in {"imported", "done"} =>
                    OkPutIds(hist[r].log) = Ids(qualifying)

\* A finished import that fetched a page with posts on both sides of the cutoff
C2_Witness ==
    \E r \in Slots :
        /\ hist[r].outcome = "done"
        /\ \E j \in DOMAIN hist[r].pages :
              /\ \E k \in DOMAIN hist[r].pages[j] :
                    hist[r].pages[j][k].created_at >= run[r].oneYearAgo
              /\ \E k \in DOMAIN hist[r].pages[j] :
                    hist[r].pages[j][k].created_at < run[r].oneYearAgo
        /\ OkPutIds(hist[r].log) # {}

\* C3: in a run every fetch comes before every put, and when the first put is
\* made every fetch the run issued has been answered.
C3_PersistAfterPagination ==
    \A r \in Slots :
        LET log == hist[r].log
        IN /\ \A i, j \in DOMAIN log :
                 (log[i].op = "put" /\ log[j].op = "fetch") => j < i
           /\ (\E i \in DOMAIN log : log[i].op = "put") =>
                 Len(hist[r].pages) = FetchCount(log)

\* A finished import of several pages and several puts
C3_Witness ==
    \E r \in Slots :
        /\ hist[r].outcome = "done"
        /\ FetchCount(hist[r].log) >= 3
        /\ Len(PutsOf(hist[r].log)) >= 3

\* C4: when a fetch of a run fails, the run ends there with the import error
\* set and isImporting false, it has put nothing, and the posts collection is
\* what it was when the run started (unless another call changed it
\* meanwhile).
C4_FetchFailureSavesNothing ==
    [][\A r \in Slots :
          (run[r].pc = "fetch" /\ run'[r].pc = "done") =>
              /\ error' = ImportError
              /\ ~isImporting'
              /\ importComplete' = importComplete
              /\ hist'[r].outcome = "fetchError"
              /\ PutsOf(hist'[r].log) = <<>>
              /\ ~hist[r].disturbed => tootsDb' = hist[r].dbAtStart]_vars

\* A run that had accumulated posts of an earlier page when a fetch failed
C4_Witness ==
    \E r \in Slots :
        /\ hist[r].outcome = "fetchError"
        /\ run[r].allToots # <<>>
        /\ Len(hist[r].pages) >= 2
        /\ ~hist[r].disturbed
        /\ tootsDb = hist[r].dbAtStart
        /\ error = ImportError

\* C5, as claimed: a run that ends with an error, on a fetch or on a put,
\* leaves the posts collection as it was when the run started.
C5_AllOrNothing ==
    [][\A r \in Slots :
          (Ends(r) /\ hist'[r].outcome \in {"fetchError", "storeError"}) =>
              /\ error' = ImportError
              /\ ~hist[r].disturbed => tootsDb' = hist[r].dbAtStart]_vars

\* C5, amended: a run ends in one of three ways. It succeeds, with every
\* accumulated post saved; or a fetch fails, the error is set and the posts
\* collection is as it was when the run started; or a put fails, the error is
\* set and the posts collection is what it was when the run started with the
\* posts before the failing one put into it.
C5_ThreeOutcomes ==
    [][\A r \in Slots :
          Ends(r) =>
              \/ /\ hist'[r].outcome = "done"
                 /\ OkPutIds(hist'[r].log) = Ids(run[r].allToots)
                 /\ ~hist[r].disturbed =>
                       tootsDb' = PutAll(hist[r].dbAtStart, run[r].allToots)
              \/ /\ hist'[r].outcome = "fetchError"
                 /\ error' = ImportError
                 /\ ~hist[r].disturbed => tootsDb' = hist[r].dbAtStart
              \/ /\ hist'[r].outcome = "storeError"
                 /\ error' = ImportError
                 /\ ~hist[r].disturbed =>
                       tootsDb' = PutAll(hist[r].dbAtStart,
                                         SubSeq(run[r].allToots, 1, run[r].i - 1))]_vars

\* A run that ended on a failed put after it had saved a post the store did
\* not hold: part of the run's posts are in the store
C5_Witness ==
    \E r \in Slots :
        /\ hist[r].outcome = "storeError"
        /\ run[r].i >= 2
        /\ ~hist[r].disturbed
        /\ tootsDb # hist[r].dbAtStart
        /\ tootsDb = PutAll(hist[r].dbAtStart, SubSeq(run[r].allToots, 1, run[r].i - 1))
        /\ error = ImportError

\* C6: when a put of the batch fails the run ends there with the error set:
\* the puts the run made are those of the posts up to the failing one, in
\* order, each before it successful; the posts before it are in the store,
\* and the failing post and the later ones are not written.
C6_PutFailureAbortsBatch ==
    [][\A r \in Slots :
          (run[r].pc = "save" /\ run'[r].pc = "done") =>
              LET all == run[r].allToots
                  i == run[r].i
              IN /\ error' = ImportError
                 /\ ~isImporting'
                 /\ hist'[r].outcome = "storeError"
                 /\ PutsOf(hist'[r].log) = [k \in 1..i |-> PutEvent(all[k].id, k < i)]
                 /\ ~hist[r].disturbed =>
                       /\ \A k \in 1..(i - 1) :
                             /\ all[k].id \in DOMAIN tootsDb'
                             /\ tootsDb'[all[k].id] = all[k]
                       /\ \A k \in i..Len(all) :
                             all[k].id \in DOMAIN tootsDb' =>
                                 all[k].id \in DOMAIN hist[r].dbAtStart]_vars

\* A run whose third put failed: two posts saved, the third and a fourth not
C6_Witness ==
    \E r \in Slots :
        /\ hist[r].outcome = "storeError"
        /\ run[r].i = 3
        /\ Len(run[r].allToots) >= 4
        /\ ~hist[r].disturbed
        /\ hist[r].dbAtStart = EmptyDb
        /\ DOMAIN tootsDb = {run[r].allToots[1].id, run[r].allToots[2].id}

-----------------------------------------------------------------------------
(* Claims about generateWrapped, under SpecArchive: the store does not change,
   so a summary in wrappedData is the summary of tootsDb *)

Summarised == ~wrappedData.isNull
OwnPosts == {tootsDb[i] : i \in {j \in DOMAIN tootsDb : ~tootsDb[j].reblog}}

\* The call from the UI ends in this step, having read the store
GenerationEnds == gen.pc = "genRead" /\ gen.ok /\ gen'.pc = "idle"

\* C7: a generation that finds no post of the user's own, in an empty archive
\* or among boosts only, fails with an error and produces no summary record.
C7_EmptyInputError ==
    [][(GenerationEnds /\ \A i \in DOMAIN gen.snapshot : gen.snapshot[i].reblog) =>
          /\ error' = GenerateError
          /\ wrappedData' = wrappedData]_vars

\* The days on which the user posted
PostDays == {DayOf(t.created_at) : t \in OwnPosts}

\* The length of the longest run of consecutive days in a set of days
LongestRun(days) ==
    LET runs == {n \in 0..Cardinality(days) :
                    \E d \in days : \A k \in 0..(n - 1) : d + k \in days}
    IN CHOOSE n \in runs : \A m \in runs : m <= n

\* C8: the summary of a non-empty set of posts has as longestStreak the length
\* of the longest run of consecutive calendar days with a post, whatever the
\* weekdays of the days and the order of the posts.
C8_LongestStreak ==
    (Summarised /\ OwnPosts # {}) => wrappedData.longestStreak = LongestRun(PostDays)

TimeSum(d) == d.morning + d.afternoon + d.evening + d.night

\* C9, as claimed: the four percentages of the time of day of a non-empty set
\* of posts add up to 99, 100 or 101.
C9_SumWithin99To101 ==
    (Summarised /\ OwnPosts # {}) => TimeSum(wrappedData.timeDistribution) \in 99..101

\* C9, amended: the four percentages of the time of day of a non-empty set of
\* posts add up to a value between 98 and 102 inclusive.
C9_SumWithin98To102 ==
    (Summarised /\ OwnPosts # {}) => TimeSum(wrappedData.timeDistribution) \in 98..102

\* Eight posts, one in each of three bands and five in the fourth: 13 + 13 +
\* 13 + 63
C9_Witness ==
    /\ Summarised
    /\ wrappedData.totalToots = 8
    /\ TimeSum(wrappedData.timeDistribution) = 102

\* The hashtags of the posts in the order of the traversal, in lower case
RECURSIVE TagsSeen(_)
TagsSeen(toots) ==
    IF toots = <<>> THEN <<>>
    ELSE (IF Head(toots).reblog THEN <<>>
          ELSE [i \in DOMAIN HashtagMatches(StripTags(Head(toots).content)) |->
                   toLowerCase(HashtagMatches(StripTags(Head(toots).content))[i])])
         \o TagsSeen(Tail(toots))

Occurrences(seen, tag) == Cardinality({i \in DOMAIN seen : seen[i] = tag})
FirstSeen(seen, tag) == CHOOSE i \in DOMAIN seen : seen[i] = tag /\ \A j \in 1..(i - 1) : seen[j] # tag

\* The tags by falling count and, for equal counts, in the order first seen
Ranking(seen) ==
    LET tags == Range(seen)
        Above(t, u) ==
            \/ Occurrences(seen, t) > Occurrences(seen, u)
            \/ Occurrences(seen, t) = Occurrences(seen, u) /\ FirstSeen(seen, t) < FirstSeen(seen, u)
        rank(t) == 1 + Cardinality({u \in tags : Above(u, t)})
    IN [k \in 1..Cardinality(tags) |-> CHOOSE t \in tags : rank(t) = k]

ExpectedTopHashtags ==
    LET seen == TagsSeen(GetAll(tootsDb))
        ranking == Ranking(seen)
    IN [k \in 1..(IF Len(ranking) < 5 THEN Len(ranking) ELSE 5) |->
           [tag |-> ranking[k], count |-> Occurrences(seen, ranking[k])]]

\* C10: topHashtags is the list of the at most five most frequent hashtags,
\* counted per lower-case tag, by falling count and, for equal counts, in the
\* order first seen; for every tag of word characters, digits included.
C10_TopHashtags ==
    Summarised =>
        /\ Len(wrappedData.topHashtags) = Len(ExpectedTopHashtags)
        /\ \A k \in DOMAIN wrappedData.topHashtags :
              /\ wrappedData.topHashtags[k].tag = ExpectedTopHashtags[k].tag
              /\ ~wrappedData.topHashtags[k].countIsString
              /\ wrappedData.topHashtags[k].count = ExpectedTopHashtags[k].count

\* The lengths of the texts of the user's posts, in the order of the store
OwnLengths ==
    LET own == SelectSeq(GetAll(tootsDb), NotReblog)
    IN [i \in DOMAIN own |-> Len(StripTags(own[i].content))]

\* The k-th smallest of the values
KthSmallest(values, k) ==
    CHOOSE v \in Range(values) :
        /\ Cardinality({i \in DOMAIN values : values[i] < v}) < k
        /\ Cardinality({i \in DOMAIN values : values[i] <= v}) >= k

ExpectedMedian(values) ==
    LET n == Len(values)
    IN IF n % 2 = 1 THEN KthSmallest(values, (n + 1) \div 2)
       ELSE (KthSmallest(values, n \div 2) + KthSmallest(values, n \div 2 + 1) + 1) \div 2

\* C11: the medianLength of a non-empty list of lengths is the middle value of
\* the sorted lengths for an odd count, and the mean of the two middle values,
\* a half rounded up, for an even count.
C11_MedianLength ==
    (Summarised /\ OwnLengths # <<>>) =>
        wrappedData.medianLength = ExpectedMedian(OwnLengths)

\* The lengths 4, 1, 3, 2 in the order of the store: the median is 3
C11_Witness ==
    /\ Summarised
    /\ OwnLengths = <<4, 1, 3, 2>>
    /\ wrappedData.medianLength = 3

-----------------------------------------------------------------------------
(* Claims about the calls of startImport, generateWrapped and resetApp, under
   Spec *)

\* The run is fetching or persisting
Importing(r) == run[r].pc \in {"fetch", "delay", "save"}

\* The run is in the generateWrapped it calls at its end
Aggregating(r) == run[r].pc \in {"genDelay", "genRead"}

\* C13: at most one import run and at most one aggregation are active at any
\* time, and no aggregation reads the archive while an import run is fetching
\* or persisting.
C13_OneRunAtATime ==
    [][/\ Cardinality({r \in Slots : Running(r)'}) <= 1
       /\ Cardinality({r \in Slots : Aggregating(r)'})
             + (IF gen'.pc = "idle" THEN 0 ELSE 1) <= 1
       /\ (\/ gen.pc = "genDelay" /\ gen'.pc = "genRead"
           \/ \E r \in Slots : run[r].pc = "genDelay" /\ run'[r].pc = "genRead")
          => \A r \in Slots : ~Importing(r)]_vars

\* No other call of startImport, generateWrapped or resetApp has been made
OnlyCall == calls.imports = 1 /\ calls.gens = 0 /\ calls.resets = 0

\* No status of the feed is older than the cutoff of the run
NoneOld(r) == \A i \in DOMAIN feed : feed[i].created_at >= run[r].oneYearAgo

\* The run r, its import finished, stopped at the first empty page with the
\* whole feed imported
StoppedAtEmptyPage(r) ==
    LET pages == hist[r].pages
        n == Len(pages)
    IN /\ n >= 1
       /\ pages[n] = <<>>
       /\ \A j \in 1..(n - 1) : pages[j] # <<>>
       /\ FetchCount(hist[r].log) = n
       /\ Flatten(pages) = feed
       /\ run[r].allToots = feed
       /\ OkPutIds(hist[r].log) = Ids(feed)
       /\ (hist[r].outcome = "imported" /\ OnlyCall) =>
             /\ error = NoError
             /\ totalToots = Len(feed)
             /\ importComplete

\* Every fetch of the run so far was answered with a page and every put of
\* it succeeded
FaultFree(r) ==
    /\ Len(hist[r].pages) = FetchCount(hist[r].log)
    /\ \A k \in DOMAIN hist[r].log : hist[r].log[k].ok

\* C14: every import run ends, and isImporting is false when it does; a run
\* ends with its import finished unless a fetch or a put of it failed; and a
\* run that finishes its import over a feed with no status older than the
\* cutoff has stopped at the first empty page with every status of the feed
\* imported and no error, which for an empty feed means 0 imported without
\* error.
C14_Terminates ==
    /\ \A r \in Slots : Started(r) ~> (run[r].pc = "done")
    /\ [][\A r \in Slots : Ends(r) => ~isImporting']_vars
    /\ [](\A r \in Slots :
             /\ (run[r].pc = "done" /\ FaultFree(r)) => hist[r].outcome = "done"
             /\ (hist[r].outcome \in {"imported", "done"} /\ NoneOld(r)) =>
                    StoppedAtEmptyPage(r))

\* A run has ended after it imported a feed of three pages, none of them old,
\* and a fourth, empty page
C14_Witness ==
    \E r \in Slots :
        /\ hist[r].outcome = "done"
        /\ NoneOld(r)
        /\ Len(hist[r].pages) = 4
        /\ hist[r].pages[4] = <<>>
        /\ ~isImporting
        /\ error = NoError
        /\ totalToots = Len(feed)

\* C15: in an import run that no other import run overlaps, the progress
\* never decreases, is at most 95 as long as the run is fetching or
\* persisting, and is 100 only when every accumulated post has been put
\* successfully.
C15_Progress ==
    [][\A r \in Slots :
          (Running(r) /\ hist'[r].alone) =>
              /\ importProgress' >= importProgress
              /\ Importing(r)' => importProgress' <= 95
              /\ importProgress' = 100 =>
                    /\ ~Importing(r)'
                    /\ OkPutIds(hist'[r].log) = Ids(run'[r].allToots)
                    /\ Len(PutsOf(hist'[r].log)) = Len(run'[r].allToots)]_vars

\* A run that no other overlapped fetched its tenth page, reported the capped
\* 95, persisted every post and reported 100
C15_Witness ==
    \E r \in Slots :
        /\ hist[r].alone
        /\ hist[r].outcome = "imported"
        /\ Len(hist[r].pages) > 10
        /\ Len(run[r].allToots) = Len(feed)
        /\ importProgress = 100

\* C16: no step of an import run or of an aggregation, successful or failed,
\* removes an id from the posts collection; the only step that does is
\* resetApp, which clears it.
C16_AppendBiased ==
    [][\/ DOMAIN tootsDb \subseteq DOMAIN tootsDb'
       \/ /\ calls'.resets = calls.resets + 1
          /\ tootsDb' = EmptyDb]_vars

\* An import run failed over a store that held posts, which are still there,
\* and an import run has added a post to a store that held one
C16_Witness ==
    \E r \in Slots :
        /\ hist[r].outcome \in {"fetchError", "storeError"}
        /\ hist[r].dbAtStart # EmptyDb
        /\ DOMAIN hist[r].dbAtStart \subseteq DOMAIN tootsDb
        /\ Cardinality(DOMAIN tootsDb) >= 2

-----------------------------------------------------------------------------
(* More claims about generateWrapped, under SpecArchive *)

\* The creation times of the user's posts in the order of the traversal
OwnTimes ==
    LET own == SelectSeq(GetAll(tootsDb), NotReblog)
    IN [i \in DOMAIN own |-> own[i].created_at]

\* The key seen most often and, among those, seen first
FirstMostSeen(seen) ==
    CHOOSE k \in Range(seen) :
        \A u \in Range(seen) \ {k} :
            \/ Occurrences(seen, k) > Occurrences(seen, u)
            \/ /\ Occurrences(seen, k) = Occurrences(seen, u)
               /\ FirstSeen(seen, k) < FirstSeen(seen, u)

\* C17: for a non-empty set of posts mostActiveHour, mostActiveDay and
\* mostActiveMonth name the key with the highest count in their frequency map
\* and, among keys with that count, the one first seen in the traversal; an
\* empty map gives hour 12, 'Montag' and 'Januar' with count 0.
C17_MostActive ==
    Summarised =>
        LET hoursSeen == [i \in DOMAIN OwnTimes |-> getHours(OwnTimes[i])]
            daysSeen == [i \in DOMAIN OwnTimes |-> dayName(OwnTimes[i])]
            monthsSeen == [i \in DOMAIN OwnTimes |-> monthName(OwnTimes[i])]
        IN IF OwnTimes = <<>>
           THEN /\ wrappedData.mostActiveHour = 12
                /\ wrappedData.mostActiveDay = "Montag"
                /\ wrappedData.mostActiveMonth = [name |-> "Januar", count |-> 0]
           ELSE /\ wrappedData.mostActiveHour = FirstMostSeen(hoursSeen)
                /\ wrappedData.mostActiveDay = FirstMostSeen(daysSeen)
                /\ wrappedData.mostActiveMonth =
                      [name |-> FirstMostSeen(monthsSeen),
                       count |-> Occurrences(monthsSeen, FirstMostSeen(monthsSeen))]

-----------------------------------------------------------------------------
(* Claims about the counters and flags startImport sets, under SpecReturn
   and Spec *)

\* The import of run r finishes in this step
ImportFinishes(r) == hist[r].outcome = "running" /\ hist'[r].outcome = "imported"

\* C18: when an import run finishes successfully, existingTootsCount is the
\* number of records in the posts collection, also when the collection held
\* posts of earlier runs that this run did not fetch again.
C18_ExistingTootsCount ==
    [][\A r \in Slots :
          ImportFinishes(r) => existingTootsCount' = Cardinality(DOMAIN tootsDb')]_vars

\* The import run called last, when it has ended with the import error
LatestFailed(r) ==
    /\ r = calls.imports
    /\ run[r].pc = "done"
    /\ hist[r].outcome \in {"fetchError", "storeError"}
    /\ error = ImportError

\* C19: after a sequence of import runs, one after the other, the last of
\* which ended with the import error set, importComplete is false and the
\* progress is not 100.
C19_ImportCompleteIsLatest ==
    \A r \in Slots :
        (LatestFailed(r) /\ \A q \in Slots : hist[q].alone) =>
            /\ ~importComplete
            /\ importProgress # 100

=============================================================================
